---- MODULE Spec2Model ----
(***************************************************************************)
(* Runner.run of src/src/runner/runner.py: the benchmark sweep over the    *)
(* configured targets, their trials and their MPL values, with the hooks   *)
(* dispatched at the lifecycle boundaries and the statistics export after  *)
(* every step.                                                             *)
(*                                                                         *)
(* External calls that can raise are the process invocation (__popen) and  *)
(* db.export_stats(); hook callbacks, db.clean(), db.cleanup(), the file   *)
(* copies and the logging are taken to return.  A process that exits with  *)
(* a non-zero status is a separate outcome of __popen: the call returns.   *)
(***************************************************************************)
EXTENDS Integers, Sequences, FiniteSets, TLC

\* dbs         self.dbs, the targets in configuration order, each with the
\*             attributes run() reads (trials, min_mpl, max_mpl, inc_mpl,
\*             clean_data)
\* hooks       self.__hooks, location name -> callbacks in registration order
\* pc          the call run() is about to make; "done" after POST_RUN,
\*             "aborted" after an exception has left run(); "init" before
\*             __init__ and "init_failed" after it has raised
\* dbi         the index in dbs of the loop variable db (0 before the loop)
\* trial, mpl  the loop variables of the two inner loops
\* it          the next value of the iterator count(db.min_mpl, db.inc_mpl)
\* stats       db.stats of every target: the rows added by addstats
\* exported    per target, the number of rows the last export_stats() that
\*             returned has put on durable storage
\* exitstatus  the exit status of the last process __popen has read out
\* trace       the external calls made so far, in order
\* stdout      the output text the last __popen returned, as its lines
\* row         the local variable stats of run(): the row extract_stats
\*             returned last, with the coordinates once they are set
\* config      self.__config: the sections of the runner config file, each
\*             with the names of its heading (split at the commas) and its
\*             key -> raw value items
VARIABLES dbs, hooks, pc, dbi, trial, it, mpl, stats, exported, exitstatus,
          trace, stdout, row, config

vars == <<dbs, hooks, pc, dbi, trial, it, mpl, stats, exported, exitstatus,
          trace, stdout, row, config>>

(***************************************************************************)
(* Bounds of the configurations explored.                                  *)
(***************************************************************************)
MaxTrials == 2
MaxMpl == 3
MaxInc == 2

\* Cap on the records of one target: the MPL loop is unbounded for inc_mpl <= 0.
StepCap == MaxTrials * MaxMpl

\* A target's typed configuration (DbSystem attributes read by Runner.run).
Cfgs(maxTrials, maxMpl, incs) ==
    [trials : 0..maxTrials, min_mpl : 1..maxMpl, max_mpl : 1..maxMpl,
     inc_mpl : incs, clean_data : BOOLEAN]

\* The sweep 1, 3, 5 of a single trial.
SweepOneThreeFive ==
    [trials |-> 1, min_mpl |-> 1, max_mpl |-> 5, inc_mpl |-> 2, clean_data |-> TRUE]

\* self.dbs: no target, one target of any configuration, or two small targets.
DbLists ==
    {<<>>, <<SweepOneThreeFive>>}
      \cup {<<c>> : c \in Cfgs(MaxTrials, MaxMpl, {-1} \cup (0..MaxInc))}
      \cup {<<c, d>> : c \in Cfgs(1, 2, {0, 1}), d \in Cfgs(1, 2, {1})}

\* self.__hooks: the table given at construction (None becomes the empty table).
HookTables ==
    { <<>>,
      [l \in {"PRE_MPL", "POST_DB", "post_mpl"} |->
          CASE l = "PRE_MPL" -> <<"h1", "h2">>
            [] l = "POST_DB" -> <<"h3">>
            [] OTHER -> <<"h4">>] }

(***************************************************************************)
(* __run_hooks                                                             *)
(***************************************************************************)
\* str.upper() on the location names in use.
Upper(s) ==
    CASE s = "pre_run" -> "PRE_RUN"
      [] s = "pre_db" -> "PRE_DB"
      [] s = "pre_trial" -> "PRE_TRIAL"
      [] s = "pre_mpl" -> "PRE_MPL"
      [] s = "post_mpl" -> "POST_MPL"
      [] s = "post_trial" -> "POST_TRIAL"
      [] s = "post_db" -> "POST_DB"
      [] s = "post_run" -> "POST_RUN"
      [] s = "Pre_Mpl" -> "PRE_MPL"
      [] s = "nowhere" -> "NOWHERE"
      [] OTHER -> s

\* Variant: the table is looked up with the location as given.
run_hooksAsGiven(table, location, args) ==
    IF location \in DOMAIN table
       THEN [k \in 1..Len(table[location]) |->
                [h |-> table[location][k], args |-> args]]
       ELSE <<>>

\* The calls h(*args) that __run_hooks makes for a location, in order.
run_hooks(table, location, args) ==
    LET loc == Upper(location)
    IN  IF loc \in DOMAIN table
           THEN [k \in 1..Len(table[loc]) |-> [h |-> table[loc][k], args |-> args]]
           ELSE <<>>

\* An entry of the history of external calls: op names the call.
Ev(op, d, t, m) == [op |-> op, db |-> d, trial |-> t, mpl |-> m, cbs |-> <<>>]

\* The history entry of one hook dispatch, with the calls it made; the
\* arguments of the dispatch are the coordinates (mpl, trial, db).
Hook(location, d, t, m) ==
    [op |-> location, db |-> d, trial |-> t, mpl |-> m,
     cbs |-> run_hooks(hooks, location, <<m, t, d>>)]

(***************************************************************************)
(* extract_stats and get_re_match                                          *)
(*                                                                         *)
(* An output text is the sequence of its lines.  A line [k, v] is what a   *)
(* pattern can find in it: k tells which pattern matches the line ("noise" *)
(* for none) and v is the text of the pattern's first group ("None" when   *)
(* the group took no part in the match).                                   *)
(***************************************************************************)
MaxLines == 3

None == "None"

Lines ==
    {[k |-> "lat", v |-> "5"], [k |-> "lat", v |-> "0"], [k |-> "lat", v |-> None],
     [k |-> "thr", v |-> "7"], [k |-> "rt", v |-> "9"], [k |-> "noise", v |-> ""]}

RECURSIVE TextsOfLen(_)
TextsOfLen(n) ==
    IF n = 0 THEN {<<>>}
    ELSE {Append(t, l) : t \in TextsOfLen(n - 1), l \in Lines}

Texts == UNION {TextsOfLen(n) : n \in 0..MaxLines}

\* const.STAT_REGEXPS: metric name -> pattern; the pattern of runtime has no
\* capturing group.
STAT_REGEXPS ==
    [k \in {"latency", "throughput", "runtime"} |->
        CASE k = "latency" -> [label |-> "lat", ngroups |-> 1]
          [] k = "throughput" -> [label |-> "thr", ngroups |-> 1]
          [] OTHER -> [label |-> "rt", ngroups |-> 0]]

\* The number a coercion (int, float) reads from a captured text.
ToNum(s) ==
    CASE s = "0" -> 0
      [] s = "5" -> 5
      [] s = "7" -> 7
      [] s = "9" -> 9

\* const.TRACKED_STATS[k](m): the coercion of metric k applied to m.
TRACKED_STATS(k, m) == ToNum(m)

\* regex.search(string): the first match, with its groups, or no match.
search(regex, string) ==
    LET hits == {i \in 1..Len(string) : string[i].k = regex.label}
    IN  IF hits = {}
           THEN [matched |-> FALSE, groups |-> <<>>]
           ELSE LET first == CHOOSE i \in hits : \A j \in hits : i <= j
                IN  [matched |-> TRUE,
                     groups |-> IF regex.ngroups = 0 THEN <<>>
                                ELSE <<string[first].v>>]

\* Variant: a metric that is not found reads as "0".
get_re_matchDefaultZero(regex, string) ==
    LET res == search(regex, string)
    IN  IF res.matched /\ Len(res.groups) > 0 /\ res.groups[1] # None
           THEN res.groups[1]
           ELSE "0"

\* get_re_match: the first group of the first match, or None.
get_re_match(regex, string) ==
    LET res == search(regex, string)
    IN  IF res.matched /\ Len(res.groups) > 0 THEN res.groups[1] ELSE None

\* extract_stats: the keyword arguments of the new Statistics row.
extract_stats(text) ==
    LET found == {k \in DOMAIN STAT_REGEXPS :
                     get_re_match(STAT_REGEXPS[k], text) # None}
    IN  [k \in found |-> TRACKED_STATS(k, get_re_match(STAT_REGEXPS[k], text))]

\* The output of a load command, and of a benchmark run that reports a
\* latency and a throughput.
LoadOutputs == {<<[k |-> "noise", v |-> ""]>>}

RunOutputs ==
    {<<[k |-> "noise", v |-> ""], [k |-> "lat", v |-> "5"], [k |-> "thr", v |-> "7"]>>}

(***************************************************************************)
(* Control flow of Runner.run                                              *)
(***************************************************************************)
db == dbs[dbi]

\* range(1, db.trials + 1): the first trial number.
FirstTrial == 1

\* Variant: the trial range written without the + 1.
HasTrialOffByOne(t, c) == t < c.trials

\* range(1, db.trials + 1): whether t is in the range.
HasTrial(t, c) == t <= c.trials

\* Variant: the limit check written with >=, which excludes max_mpl itself.
OverLimitInclusive(m, c) == m >= c.max_mpl

\* if mpl > db.max_mpl: break
OverLimit(m, c) == m > c.max_mpl

\* Variant: a step body that never exports.
BodyNoExport(c) ==
    (IF c.clean_data THEN <<"clean", "load">> ELSE <<>>) \o <<"run", "POST_MPL">>

\* Variant: a step body that exports before POST_MPL is dispatched.
BodyExportFirst(c) ==
    (IF c.clean_data THEN <<"clean", "load">> ELSE <<>>)
        \o <<"run", "export", "POST_MPL">>

\* Variant: a step body that loads before it cleans.
BodyLoadFirst(c) ==
    (IF c.clean_data THEN <<"load", "clean">> ELSE <<>>)
        \o <<"run", "POST_MPL", "export">>

\* The calls of one step body after the limit check, in program order.
Body(c) ==
    (IF c.clean_data THEN <<"clean">> ELSE <<>>)
        \o (IF c.clean_data THEN <<"load">> ELSE <<>>)
        \o <<"run", "POST_MPL", "export">>

\* Where control goes after the call `label` of the step body.
After(c, label) ==
    LET b == Body(c)
        i == CHOOSE j \in 1..Len(b) : b[j] = label
    IN  IF i < Len(b) THEN b[i + 1] ELSE "PRE_MPL"

\* Variant: an exception is swallowed and the target is cleaned up.
PropagateToCleanup == "cleanup"

\* Where control goes when a call raises: run() has no try/except/finally.
Propagate == "aborted"

\* Variant: the iterator never advances.
CountNextStuck(m, c) == m

\* Variant: a step below 1 is replaced by 1.
CountNextAtLeastOne(m, c) == m + (IF c.inc_mpl < 1 THEN 1 ELSE c.inc_mpl)

\* count(start, step): the value that follows m.
CountNext(m, c) == m + c.inc_mpl

\* Variant: the coordinates are set on the row the wrong way round.
RowSwapped(st, m, t) == [mpl |-> t, trial |-> m, measured |-> st]

\* stats.mpl = mpl; stats.trial = trial, on the row made of the extracted
\* metrics st.
Row(st, m, t) == [mpl |-> m, trial |-> t, measured |-> st]

\* Variant: one statistics collection is shared by all the targets.
addstatsShared(all, i, st) == [d \in DOMAIN all |-> Append(all[d], st)]

\* db.stats.addstats(stats): the row goes to the end of the target's collection.
addstats(all, i, st) == [all EXCEPT ![i] = Append(@, st)]

\* Variant: the loop over the targets stops one target early.
AfterDbSkipLast(i) == IF i + 1 < Len(dbs) THEN "PRE_DB" ELSE "POST_RUN"

\* for db in self.dbs: the next target, or the end of the loop.
AfterDb(i) == IF i < Len(dbs) THEN "PRE_DB" ELSE "POST_RUN"

\* for trial in range(...): the next trial, or the end of the loop.
AfterTrial(t, c) == IF HasTrial(t, c) THEN "PRE_TRIAL" ELSE "cleanup"

Init ==
    /\ dbs \in DbLists
    /\ hooks \in HookTables
    /\ pc = "PRE_RUN"
    /\ dbi = 0
    /\ trial = 0
    /\ it = 0
    /\ mpl = 0
    /\ stats = [i \in 1..Len(dbs) |-> <<>>]
    /\ exported = [i \in 1..Len(dbs) |-> 0]
    /\ exitstatus = "none"
    /\ trace = <<>>
    /\ stdout = <<>>
    /\ row = <<>>
    /\ config = <<>>

PreRun ==
    /\ pc = "PRE_RUN"
    /\ trace' = Append(trace, Hook("PRE_RUN", 0, 0, 0))
    /\ dbi' = IF Len(dbs) > 0 THEN 1 ELSE dbi
    /\ pc' = AfterDb(0)
    /\ UNCHANGED <<dbs, hooks, trial, it, mpl, stats, exported, exitstatus,
                 stdout, row, config>>

\* PRE_DB, the two copies, generate_workload_file, then the trial loop's head.
PreDb ==
    /\ pc = "PRE_DB"
    /\ trace' = trace \o <<Hook("PRE_DB", dbi, 0, 0), Ev("setup", dbi, 0, 0)>>
    /\ pc' = AfterTrial(FirstTrial, db)
    /\ trial' = IF HasTrial(FirstTrial, db) THEN FirstTrial ELSE trial
    /\ UNCHANGED <<dbs, hooks, dbi, it, mpl, stats, exported, exitstatus,
                 stdout, row, config>>

\* PRE_TRIAL, then count(start=db.min_mpl, step=db.inc_mpl) is created.
PreTrial ==
    /\ pc = "PRE_TRIAL"
    /\ trace' = Append(trace, Hook("PRE_TRIAL", dbi, trial, 0))
    /\ it' = db.min_mpl
    /\ pc' = "PRE_MPL"
    /\ UNCHANGED <<dbs, hooks, dbi, trial, mpl, stats, exported, exitstatus,
                 stdout, row, config>>

\* mpl = next(count), PRE_MPL, then the limit check.
PreMpl ==
    /\ pc = "PRE_MPL"
    /\ mpl' = it
    /\ it' = CountNext(it, db)
    /\ trace' = Append(trace, Hook("PRE_MPL", dbi, trial, it))
    /\ pc' = IF OverLimit(it, db) THEN "POST_TRIAL" ELSE Body(db)[1]
    /\ UNCHANGED <<dbs, hooks, dbi, trial, stats, exported, exitstatus,
                 stdout, row, config>>

Clean ==
    /\ pc = "clean"
    /\ trace' = Append(trace, Ev("clean", dbi, trial, mpl))
    /\ pc' = After(db, "clean")
    /\ UNCHANGED <<dbs, hooks, dbi, trial, it, mpl, stats, exported, exitstatus,
                 stdout, row, config>>

\* self.__popen(db.cmd_ycsb_load()) returns the output, whatever the exit status.
Load ==
    /\ pc = "load"
    /\ \E rc \in {"zero", "nonzero"}, out \in LoadOutputs :
          /\ exitstatus' = rc
          /\ stdout' = out
          /\ trace' = Append(trace, Ev("load", dbi, trial, mpl))
          /\ pc' = After(db, "load")
    /\ UNCHANGED <<dbs, hooks, dbi, trial, it, mpl, stats, exported, row, config>>

\* self.__popen(db.cmd_ycsb_run(mpl)) returns: extract_stats, mpl and trial
\* set on the row, addstats.
Run ==
    /\ pc = "run"
    /\ Len(stats[dbi]) < StepCap
    /\ \E rc \in {"zero", "nonzero"}, out \in RunOutputs :
          /\ exitstatus' = rc
          /\ stdout' = out
          /\ row' = Row(extract_stats(out), mpl, trial)
          /\ trace' = trace \o <<Ev("run", dbi, trial, mpl),
                                 Ev("addstats", dbi, trial, mpl)>>
          /\ stats' = addstats(stats, dbi, Row(extract_stats(out), mpl, trial))
          /\ pc' = After(db, "run")
    /\ UNCHANGED <<dbs, hooks, dbi, trial, it, mpl, exported, config>>

\* subprocess.Popen or the read of its output raises.
PopenRaises ==
    /\ pc \in {"load", "run"}
    /\ trace' = trace \o <<Ev(pc, dbi, trial, mpl), Ev("raise", dbi, trial, mpl)>>
    /\ pc' = Propagate
    /\ UNCHANGED <<dbs, hooks, dbi, trial, it, mpl, stats, exported, exitstatus,
                 stdout, row, config>>

PostMpl ==
    /\ pc = "POST_MPL"
    /\ trace' = Append(trace, Hook("POST_MPL", dbi, trial, mpl))
    /\ pc' = After(db, "POST_MPL")
    /\ UNCHANGED <<dbs, hooks, dbi, trial, it, mpl, stats, exported, exitstatus,
                 stdout, row, config>>

\* db.export_stats() returns: all the accumulated rows are on durable storage.
Export ==
    /\ pc = "export"
    /\ trace' = Append(trace, Ev("export", dbi, trial, mpl))
    /\ exported' = [exported EXCEPT ![dbi] = Len(stats[dbi])]
    /\ pc' = After(db, "export")
    /\ UNCHANGED <<dbs, hooks, dbi, trial, it, mpl, stats, exitstatus,
                 stdout, row, config>>

ExportRaises ==
    /\ pc = "export"
    /\ trace' = trace \o <<Ev("export", dbi, trial, mpl),
                           Ev("raise", dbi, trial, mpl)>>
    /\ pc' = Propagate
    /\ UNCHANGED <<dbs, hooks, dbi, trial, it, mpl, stats, exported, exitstatus,
                 stdout, row, config>>

PostTrial ==
    /\ pc = "POST_TRIAL"
    /\ trace' = Append(trace, Hook("POST_TRIAL", dbi, trial, 0))
    /\ pc' = AfterTrial(trial + 1, db)
    /\ trial' = IF HasTrial(trial + 1, db) THEN trial + 1 ELSE trial
    /\ UNCHANGED <<dbs, hooks, dbi, it, mpl, stats, exported, exitstatus,
                 stdout, row, config>>

Cleanup ==
    /\ pc = "cleanup"
    /\ trace' = Append(trace, Ev("cleanup", dbi, 0, 0))
    /\ pc' = "POST_DB"
    /\ UNCHANGED <<dbs, hooks, dbi, trial, it, mpl, stats, exported, exitstatus,
                 stdout, row, config>>

PostDb ==
    /\ pc = "POST_DB"
    /\ trace' = Append(trace, Hook("POST_DB", dbi, 0, 0))
    /\ pc' = AfterDb(dbi)
    /\ dbi' = IF dbi < Len(dbs) THEN dbi + 1 ELSE dbi
    /\ UNCHANGED <<dbs, hooks, trial, it, mpl, stats, exported, exitstatus,
                 stdout, row, config>>

PostRun ==
    /\ pc = "POST_RUN"
    /\ trace' = Append(trace, Hook("POST_RUN", 0, 0, 0))
    /\ pc' = "done"
    /\ UNCHANGED <<dbs, hooks, dbi, trial, it, mpl, stats, exported, exitstatus,
                 stdout, row, config>>

Next ==
    \/ PreRun
    \/ PreDb
    \/ PreTrial
    \/ PreMpl
    \/ Clean
    \/ Load
    \/ Run
    \/ PopenRaises
    \/ PostMpl
    \/ Export
    \/ ExportRaises
    \/ PostTrial
    \/ Cleanup
    \/ PostDb
    \/ PostRun

Spec == Init /\ [][Next]_vars

(***************************************************************************)
(* __run_hooks on its own: dispatches at any location, registered or not   *)
(***************************************************************************)
MaxDispatch == 2

\* Location names as a caller may spell them.
LocationInputs ==
    {"PRE_MPL", "pre_mpl", "Pre_Mpl", "POST_MPL", "post_mpl", "POST_DB",
     "post_db", "nowhere"}

InitDispatch ==
    /\ dbs = <<>>
    /\ hooks \in HookTables
    /\ pc = "dispatch"
    /\ dbi = 0
    /\ trial = 0
    /\ it = 0
    /\ mpl = 0
    /\ stats = <<>>
    /\ exported = <<>>
    /\ exitstatus = "none"
    /\ trace = <<>>
    /\ stdout = <<>>
    /\ row = <<>>
    /\ config = <<>>

\* self.__run_hooks(location, *args)
Dispatch ==
    /\ pc = "dispatch"
    /\ Len(trace) < MaxDispatch
    /\ \E location \in LocationInputs, m \in 1..2 :
          trace' = Append(trace, Hook(location, 1, 1, m))
    /\ UNCHANGED <<dbs, hooks, pc, dbi, trial, it, mpl, stats, exported, exitstatus,
                 stdout, row, config>>

DispatchSpec == InitDispatch /\ [][Dispatch]_vars

(***************************************************************************)
(* extract_stats on its own: any output text of up to MaxLines lines       *)
(***************************************************************************)
InitExtract ==
    /\ dbs = <<>>
    /\ hooks = <<>>
    /\ pc = "extract"
    /\ dbi = 0
    /\ trial = 0
    /\ it = 0
    /\ mpl = 0
    /\ stats = <<>>
    /\ exported = <<>>
    /\ exitstatus = "zero"
    /\ trace = <<>>
    /\ stdout \in Texts
    /\ row = <<>>
    /\ config = <<>>

\* Runner.extract_stats(stdout)
Extract ==
    /\ pc = "extract"
    /\ row' = extract_stats(stdout)
    /\ pc' = "extracted"
    /\ UNCHANGED <<dbs, hooks, dbi, trial, it, mpl, stats, exported, exitstatus,
                   trace, stdout, config>>

ExtractSpec == InitExtract /\ [][Extract]_vars

\* The steps of a run in which every external call returns.
NextReturning ==
    \/ PreRun
    \/ PreDb
    \/ PreTrial
    \/ PreMpl
    \/ Clean
    \/ Load
    \/ Run
    \/ PostMpl
    \/ Export
    \/ PostTrial
    \/ Cleanup
    \/ PostDb
    \/ PostRun

\* run() is one thread that goes on to its next statement whenever a call
\* returns.
LiveSpec == Init /\ [][NextReturning]_vars /\ WF_vars(NextReturning)

(***************************************************************************)
(* Runner.__init__: the sections of the config file become self.dbs        *)
(***************************************************************************)

\* const.OPTION_KEYS: the recognized options and their declared types.
OPTION_KEYS ==
    [trials |-> "int", min_mpl |-> "int", max_mpl |-> "int",
     inc_mpl |-> "int", clean_data |-> "bool", workload |-> "str"]

\* const.SUPPORTED_DBS: the supported target kinds, in lower case.
SUPPORTED_DBS == {"mysql", "psql"}

\* Keys a section may carry besides the recognized options.
ExtraKeys == {"host", "port"}

\* The raw value a section of the config files below gives to key k.
RawValue(k, tr, cl) ==
    CASE k = "trials" -> tr
      [] k = "clean_data" -> cl
      [] k = "workload" -> "workloads/a"
      [] k = "host" -> "localhost"
      [] k = "port" -> "080"
      [] OTHER -> "1"

\* The key -> raw string view configparser gives of one section (the keys
\* the parser's defaults supply are part of the view).
SectionItems ==
    {[k \in keys |-> RawValue(k, tr, cl)] :
        keys \in {((DOMAIN OPTION_KEYS) \ drop) \cup ex :
                      drop \in {{}, {"trials"}}, ex \in SUBSET ExtraKeys},
        tr \in {"1", "x"}, cl \in {"yes", "no", "maybe"}}

\* The pieces section.split(',') makes of a section heading.
RawNames == {"mysql", " MySQL ", "mysql[a]", "PSQL[b]", "oracle", "oracle[c]"}

Headings == {<<n>> : n \in RawNames} \cup {<<n, m>> : n, m \in RawNames}

\* A section of the config file.
Sections == [names : Headings, items : SectionItems]

\* The sections of the second kind of file: few headings, few values.
SmallSections ==
    [names : {<<"mysql">>, <<"PSQL[b]", "oracle">>},
     items : {[k \in keys |-> RawValue(k, tr, "no")] :
                 keys \in {(DOMAIN OPTION_KEYS) \cup ex : ex \in {{}, {"host"}}},
                 tr \in {"1", "x"}}]

\* self.__config after read(): a file of one section of any kind, or a file
\* of two small sections.
ConfigFiles ==
    {<<s>> : s \in Sections} \cup {<<s, t>> : s, t \in SmallSections}

\* str.strip()
strip(s) == IF s = " MySQL " THEN "MySQL" ELSE s

\* str.lower()
lower(s) ==
    CASE s = "MySQL" -> "mysql"
      [] s = "PSQL" -> "psql"
      [] OTHER -> s

\* const.RE_DBNAME_LABEL.search(dbname): the match with its one group, or
\* no match.
label_search(dbname) ==
    CASE dbname = "mysql[a]" -> [matched |-> TRUE, groups |-> <<"a">>]
      [] dbname = "PSQL[b]" -> [matched |-> TRUE, groups |-> <<"b">>]
      [] dbname = "oracle[c]" -> [matched |-> TRUE, groups |-> <<"c">>]
      [] OTHER -> [matched |-> FALSE, groups |-> <<>>]

\* const.RE_DBNAME_LABEL.sub("", dbname)
label_sub(dbname) ==
    CASE dbname = "mysql[a]" -> "mysql"
      [] dbname = "PSQL[b]" -> "PSQL"
      [] dbname = "oracle[c]" -> "oracle"
      [] OTHER -> dbname

\* int(raw) and configparser's boolean words: the raw strings that convert.
IntOf == [x \in {"0", "1", "2", "080"} |->
             CASE x = "0" -> 0 [] x = "1" -> 1 [] x = "2" -> 2 [] x = "080" -> 80]

BoolOf == [x \in {"yes", "no", "true", "false", "on", "off", "1", "0"} |->
              x \in {"yes", "true", "on", "1"}]

\* getint / getboolean / get of key k raise: the key is not in the view, or
\* its value does not convert to the declared type.
Raises(t, items, k) ==
    \/ k \notin DOMAIN items
    \/ t = "int" /\ items[k] \notin DOMAIN IntOf
    \/ t = "bool" /\ items[k] \notin DOMAIN BoolOf

\* The value getint / getboolean / get return.
Coerce(t, raw) ==
    CASE t = "int" -> IntOf[raw]
      [] t = "bool" -> BoolOf[raw]
      [] OTHER -> raw

\* __process_runner_config_keys: raised tells that a lookup raised,
\* otherwise config is the typed configuration.
process_runner_config_keys(section) ==
    IF \E k \in DOMAIN OPTION_KEYS : Raises(OPTION_KEYS[k], section.items, k)
    THEN [raised |-> TRUE, config |-> <<>>]
    ELSE [raised |-> FALSE,
          config |-> [k \in DOMAIN OPTION_KEYS |->
                         Coerce(OPTION_KEYS[k], section.items[k])]]

\* __extraneous_config that keeps every key of the section.
extraneous_configAllKeys(config_section) == config_section

\* __extraneous_config
extraneous_config(config_section) ==
    [k \in (DOMAIN config_section) \ (DOMAIN OPTION_KEYS) |-> config_section[k]]

\* DbSystem(dbname, config, label=label, extraneous_config=extraneous_config):
\* the descriptor and the attributes run() reads from it.
DbSystem(dbname, cfg, label, extraneous) ==
    [dbname |-> dbname, label |-> label, config |-> cfg,
     extraneous_config |-> extraneous,
     trials |-> cfg.trials, min_mpl |-> cfg.min_mpl, max_mpl |-> cfg.max_mpl,
     inc_mpl |-> cfg.inc_mpl, clean_data |-> cfg.clean_data]

\* The loop of __process_dbs over the names of the heading.
RECURSIVE db_instances(_, _, _)
db_instances(names, cfg, extraneous) ==
    IF names = <<>> THEN <<>>
    ELSE LET stripped == strip(Head(names))
             found == label_search(stripped)
             label == IF found.matched THEN found.groups[1] ELSE ""
             dbname == IF found.matched THEN label_sub(stripped) ELSE stripped
             rest == db_instances(Tail(names), cfg, extraneous)
         IN  IF lower(dbname) \notin SUPPORTED_DBS
             THEN rest
             ELSE <<DbSystem(dbname, cfg, label, extraneous)>> \o rest

\* The loop leaving at the first unsupported name.
RECURSIVE db_instancesUntilInvalid(_, _, _)
db_instancesUntilInvalid(names, cfg, extraneous) ==
    IF names = <<>> THEN <<>>
    ELSE LET stripped == strip(Head(names))
             found == label_search(stripped)
             label == IF found.matched THEN found.groups[1] ELSE ""
             dbname == IF found.matched THEN label_sub(stripped) ELSE stripped
         IN  IF lower(dbname) \notin SUPPORTED_DBS
             THEN <<>>
             ELSE <<DbSystem(dbname, cfg, label, extraneous)>>
                      \o db_instancesUntilInvalid(Tail(names), cfg, extraneous)

\* __process_dbs that stops at an unsupported name.
process_dbsUntilInvalid(section, cfg) ==
    db_instancesUntilInvalid(section.names, cfg, extraneous_config(section.items))

\* __process_dbs
process_dbs(section, cfg) ==
    db_instances(section.names, cfg, extraneous_config(section.items))

\* __process_sections that leaves out a section whose options raise.
RECURSIVE process_sectionsSkipping(_)
process_sectionsSkipping(cfg) ==
    IF cfg = <<>> THEN [raised |-> FALSE, dbs |-> <<>>]
    ELSE LET keys == process_runner_config_keys(Head(cfg))
             rest == process_sectionsSkipping(Tail(cfg))
         IN  IF keys.raised THEN rest
             ELSE [raised |-> FALSE,
                   dbs |-> process_dbs(Head(cfg), keys.config) \o rest.dbs]

\* __process_sections: the sections in order; a lookup that raises ends it.
RECURSIVE process_sections(_)
process_sections(cfg) ==
    IF cfg = <<>> THEN [raised |-> FALSE, dbs |-> <<>>]
    ELSE LET keys == process_runner_config_keys(Head(cfg))
             rest == process_sections(Tail(cfg))
         IN  IF keys.raised \/ rest.raised THEN [raised |-> TRUE, dbs |-> <<>>]
             ELSE [raised |-> FALSE,
                   dbs |-> process_dbs(Head(cfg), keys.config) \o rest.dbs]

InitCtor ==
    /\ config \in ConfigFiles
    /\ hooks \in HookTables
    /\ pc = "init"
    /\ dbs = <<>>
    /\ dbi = 0
    /\ trial = 0
    /\ it = 0
    /\ mpl = 0
    /\ stats = <<>>
    /\ exported = <<>>
    /\ exitstatus = "none"
    /\ trace = <<>>
    /\ stdout = <<>>
    /\ row = <<>>

\* __init__ returns: self.dbs is set and the caller goes on to run().
Construct ==
    /\ pc = "init"
    /\ ~process_sections(config).raised
    /\ dbs' = process_sections(config).dbs
    /\ stats' = [i \in 1..Len(dbs') |-> <<>>]
    /\ exported' = [i \in 1..Len(dbs') |-> 0]
    /\ pc' = "PRE_RUN"
    /\ UNCHANGED <<hooks, dbi, trial, it, mpl, exitstatus, trace, stdout, row,
                   config>>

\* __process_sections raises out of __init__: there is no Runner to run.
ConstructRaises ==
    /\ pc = "init"
    /\ process_sections(config).raised
    /\ pc' = "init_failed"
    /\ UNCHANGED <<dbs, hooks, dbi, trial, it, mpl, stats, exported, exitstatus,
                   trace, stdout, row, config>>

NextCtor ==
    \/ Construct
    \/ ConstructRaises
    \/ Next

CtorSpec == InitCtor /\ [][NextCtor]_vars

(***************************************************************************)
(* Reading the history                                                     *)
(***************************************************************************)
Idx == 1..Len(trace)

Targets == 1..Len(dbs)

\* The history entries of target d with an op in ops, in order.
EventsOf(d, ops) ==
    LET keep(e) == e.db = d /\ e.op \in ops IN SelectSeq(trace, keep)

\* The same, of one trial of target d.
TrialEventsOf(d, t, ops) ==
    LET keep(e) == e.db = d /\ e.trial = t /\ e.op \in ops
    IN  SelectSeq(trace, keep)

SameStep(e, f) == e.db = f.db /\ e.trial = f.trial /\ e.mpl = f.mpl

Raised == \E i \in Idx : trace[i].op = "raise"

TrialDone(d, t) == Len(TrialEventsOf(d, t, {"POST_TRIAL"})) > 0

(***************************************************************************)
(* C1: in every trial of every target the MPL values whose run command is  *)
(* invoked, and those of the records appended, are min_mpl, min_mpl +      *)
(* inc_mpl, ... in this order, none above max_mpl; a trial ends only when  *)
(* the next value of the sequence exceeds max_mpl, so max_mpl itself is    *)
(* executed when it is in the sequence and nothing is when min_mpl >       *)
(* max_mpl.                                                                *)
(***************************************************************************)
MplSweepExact ==
    \A d \in Targets : \A t \in 1..MaxTrials + 1 :
        LET c == dbs[d]
            runs == TrialEventsOf(d, t, {"run"})
            rows == TrialEventsOf(d, t, {"addstats"})
            recs == LET keep(r) == r.trial = t IN SelectSeq(stats[d], keep)
        IN  /\ \A k \in 1..Len(runs) :
                  /\ runs[k].mpl = c.min_mpl + (k - 1) * c.inc_mpl
                  /\ runs[k].mpl <= c.max_mpl
            /\ Len(recs) = Len(rows)
            /\ \A k \in 1..Len(recs) : recs[k].mpl = runs[k].mpl
            /\ c.inc_mpl >= 1 =>
                  \A k \in 1..Len(runs) - 1 : runs[k].mpl < runs[k + 1].mpl
            /\ TrialDone(d, t) =>
                  /\ Len(recs) = Len(runs)
                  /\ c.min_mpl + Len(runs) * c.inc_mpl > c.max_mpl
                  /\ c.min_mpl > c.max_mpl => Len(runs) = 0

\* The finished run of min_mpl = 1, max_mpl = 5, inc_mpl = 2: 1, 3 and 5 ran.
MplSweepWitness ==
    /\ pc = "done"
    /\ dbs = <<SweepOneThreeFive>>
    /\ Len(stats[1]) = 3
    /\ stats[1][1].mpl = 1 /\ stats[1][2].mpl = 3 /\ stats[1][3].mpl = 5
    /\ \A k \in 1..3 : stats[1][k].trial = 1

(***************************************************************************)
(* C2: for every target the appends and the export invocations alternate,  *)
(* append first: every export is invoked for the step whose record was the *)
(* last one appended, once, and before the next record is appended; a      *)
(* record is without its export only while its own step is between the     *)
(* append and the export.                                                  *)
(***************************************************************************)
ExportOncePerStep ==
    \A d \in Targets :
        LET s == EventsOf(d, {"addstats", "export"})
        IN  /\ \A k \in 1..Len(s) :
                  /\ s[k].op = (IF k % 2 = 1 THEN "addstats" ELSE "export")
                  /\ k % 2 = 0 => SameStep(s[k], s[k - 1])
            /\ Len(EventsOf(d, {"addstats"})) = Len(stats[d])
            /\ Len(s) % 2 = 1 => (d = dbi /\ pc \in {"POST_MPL", "export"})

\* A finished run in which a target had three steps, each exported.
ExportOncePerStepWitness ==
    /\ pc = "done"
    /\ \E d \in Targets :
          /\ Len(stats[d]) = 3
          /\ Len(EventsOf(d, {"export"})) = 3

(***************************************************************************)
(* C3: every target whose PRE_DB was dispatched has its cleanup invoked at *)
(* most once, and exactly once as soon as the run has left the target,     *)
(* whether by finishing its trial loop or by a failure.                    *)
(***************************************************************************)
CleanupOncePerStartedTarget ==
    \A d \in Targets :
        Len(EventsOf(d, {"PRE_DB"})) > 0 =>
            /\ Len(EventsOf(d, {"cleanup"})) <= 1
            /\ (pc \in {"done", "aborted"} \/ dbi > d) =>
                  Len(EventsOf(d, {"cleanup"})) = 1

(***************************************************************************)
(* C4: in every state every target has at most one appended record that is *)
(* not on durable storage, and at every process invocation of a step all   *)
(* the records of the target's earlier steps are.                          *)
(***************************************************************************)
AtMostOneUnexported ==
    \A d \in Targets :
        /\ exported[d] <= Len(stats[d])
        /\ Len(stats[d]) - exported[d] <= 1
        /\ (d = dbi /\ pc \in {"clean", "load", "run"}) =>
              exported[d] = Len(stats[d])

\* An export raised after two exported steps: the third record alone is lost.
AtMostOneUnexportedWitness ==
    /\ pc = "aborted"
    /\ \E d \in Targets : Len(stats[d]) = 3 /\ exported[d] = 2

(***************************************************************************)
(* C5: once a process invocation or an export has raised, the run is over: *)
(* the raise is the last entry of the history, no later target has any     *)
(* entry, and no step changes the history, the records or what is          *)
(* exported.                                                               *)
(***************************************************************************)
FailureAborts ==
    /\ [](Raised =>
            /\ pc = "aborted"
            /\ trace[Len(trace)].op = "raise"
            /\ \A i \in Idx : trace[i].op = "raise" => i = Len(trace)
            /\ \A d \in Targets :
                  d > dbi => (EventsOf(d, {"PRE_DB", "cleanup"}) = <<>>
                                /\ stats[d] = <<>>))
    /\ [][Raised => UNCHANGED <<trace, stats, exported, pc>>]_vars

\* The first of two targets failed after a record: the second never starts.
FailureAbortsWitness ==
    /\ Raised
    /\ Len(dbs) = 2
    /\ dbi = 1
    /\ Len(stats[1]) >= 1
    /\ dbs[2].trials >= 1
    /\ stats[2] = <<>>

(***************************************************************************)
(* C6: when the process of a load or run command has exited with a         *)
(* non-zero status the run is aborted and no record was appended from its  *)
(* output.                                                                 *)
(***************************************************************************)
NonZeroExitAborts ==
    exitstatus = "nonzero" =>
        /\ pc = "aborted"
        /\ trace[Len(trace)].op # "addstats"

(***************************************************************************)
(* C7: in every trial that reached POST_TRIAL, with k records appended,    *)
(* PRE_MPL was dispatched k + 1 times and POST_MPL k times; the first k    *)
(* PRE_MPL carry the executed values and the last one a value above        *)
(* max_mpl, after which nothing of the step body happened.                 *)
(***************************************************************************)
PreMplFiresOnceMore ==
    \A d \in Targets : \A t \in 1..MaxTrials + 1 :
        TrialDone(d, t) =>
            LET pre == TrialEventsOf(d, t, {"PRE_MPL"})
                post == TrialEventsOf(d, t, {"POST_MPL"})
                rows == TrialEventsOf(d, t, {"addstats"})
                k == Len(rows)
                all == TrialEventsOf(d, t,
                          {"PRE_MPL", "clean", "load", "run", "addstats",
                           "POST_MPL", "export", "POST_TRIAL"})
            IN  /\ Len(pre) = k + 1
                /\ Len(post) = k
                /\ \A j \in 1..k : pre[j].mpl = rows[j].mpl
                                      /\ pre[j].mpl <= dbs[d].max_mpl
                /\ pre[k + 1].mpl > dbs[d].max_mpl
                /\ all[Len(all)].op = "POST_TRIAL"
                /\ all[Len(all) - 1] = pre[k + 1]

\* A finished trial of two steps: three PRE_MPL, two POST_MPL.
PreMplFiresOnceMoreWitness ==
    \E d \in Targets :
        /\ TrialDone(d, 1)
        /\ Len(TrialEventsOf(d, 1, {"addstats"})) = 2
        /\ Len(TrialEventsOf(d, 1, {"PRE_MPL"})) = 3
        /\ "PRE_MPL" \in DOMAIN hooks

(***************************************************************************)
(* C8 as stated: every POST_* hook directly follows the last call of its   *)
(* phase body: POST_MPL the export of its step, POST_DB the cleanup of its *)
(* target.                                                                 *)
(***************************************************************************)
PostHooksAfterWholeBody ==
    \A i \in Idx :
        /\ trace[i].op = "POST_MPL" =>
              (i > 1 /\ trace[i - 1].op = "export"
                     /\ SameStep(trace[i - 1], trace[i]))
        /\ trace[i].op = "POST_DB" =>
              (i > 1 /\ trace[i - 1].op = "cleanup"
                     /\ trace[i - 1].db = trace[i].db)

(***************************************************************************)
(* C8 as amended: POST_MPL directly follows the append of its step's       *)
(* record and the export of the step directly follows POST_MPL; POST_TRIAL *)
(* directly follows the over-limit PRE_MPL of its trial, POST_DB the       *)
(* cleanup of its target, and POST_RUN ends the history.                   *)
(***************************************************************************)
PostMplBeforeExport ==
    \A i \in Idx :
        /\ trace[i].op = "POST_MPL" =>
              (i > 1 /\ trace[i - 1].op = "addstats"
                     /\ SameStep(trace[i - 1], trace[i]))
        /\ trace[i].op = "export" =>
              (i > 1 /\ trace[i - 1].op = "POST_MPL"
                     /\ SameStep(trace[i - 1], trace[i]))
        /\ trace[i].op = "POST_TRIAL" =>
              (i > 1 /\ trace[i - 1].op = "PRE_MPL"
                     /\ trace[i - 1].db = trace[i].db
                     /\ trace[i - 1].trial = trace[i].trial
                     /\ trace[i - 1].mpl > dbs[trace[i].db].max_mpl)
        /\ trace[i].op = "POST_DB" =>
              (i > 1 /\ trace[i - 1].op = "cleanup"
                     /\ trace[i - 1].db = trace[i].db)
        /\ trace[i].op = "POST_RUN" =>
              (i = Len(trace) /\ i > 1
                 /\ trace[i - 1].op = (IF Len(dbs) = 0 THEN "PRE_RUN" ELSE "POST_DB")
                 /\ trace[i - 1].db = Len(dbs))

\* A finished run with an exported step: all five POST_* shapes occurred.
PostMplBeforeExportWitness ==
    /\ pc = "done"
    /\ \E i \in Idx : trace[i].op = "export"
    /\ \E i \in Idx : trace[i].op = "POST_DB"

(***************************************************************************)
(* C9: a record is appended directly after the run command of its step;    *)
(* with clean_data the calls between the step's PRE_MPL and the append are *)
(* clean, load, run, in this order, and without it the run command alone.  *)
(***************************************************************************)
CleanLoadRunOrder ==
    \A i \in Idx :
        trace[i].op = "addstats" =>
            LET n == IF dbs[trace[i].db].clean_data THEN 4 ELSE 2
                ops == IF dbs[trace[i].db].clean_data
                          THEN <<"PRE_MPL", "clean", "load", "run">>
                          ELSE <<"PRE_MPL", "run">>
            IN  /\ i > n
                /\ \A j \in 1..n :
                      /\ trace[i - n + j - 1].op = ops[j]
                      /\ SameStep(trace[i - n + j - 1], trace[i])

\* A finished run of a target that cleans and one that does not.
CleanLoadRunOrderWitness ==
    /\ pc = "done"
    /\ Len(dbs) = 2
    /\ dbs[1].clean_data /\ ~dbs[2].clean_data
    /\ Len(stats[1]) >= 1 /\ Len(stats[2]) >= 1

(***************************************************************************)
(* C10: the trials started for a target are 1, 2, ... in this order, none  *)
(* above trials; a trial starts only directly after PRE_DB's set-up or     *)
(* the POST_TRIAL of the trial before it, which itself follows that        *)
(* trial's whole sweep; when the target is cleaned up all of 1..trials     *)
(* were started and finished, none when trials = 0.                        *)
(***************************************************************************)
TrialsInOrder ==
    \A d \in Targets :
        LET pre == EventsOf(d, {"PRE_TRIAL"})
            post == EventsOf(d, {"POST_TRIAL"})
            work == EventsOf(d, {"PRE_MPL", "clean", "load", "run", "addstats",
                                 "POST_MPL", "export"})
        IN  /\ Len(pre) <= dbs[d].trials
            /\ \A k \in 1..Len(pre) : pre[k].trial = k
            /\ Len(post) \in {Len(pre), Len(pre) - 1}
            /\ \A k \in 1..Len(post) : post[k].trial = k
            /\ \A k \in 1..Len(work) : work[k].trial \in 1..Len(pre)
            /\ \A k \in 1..Len(work) - 1 : work[k].trial <= work[k + 1].trial
            /\ \A i \in Idx :
                  (trace[i].op = "PRE_TRIAL" /\ trace[i].db = d) =>
                      /\ i > 1 /\ trace[i - 1].db = d
                      /\ trace[i - 1].op =
                            (IF trace[i].trial = 1 THEN "setup" ELSE "POST_TRIAL")
            /\ Len(EventsOf(d, {"cleanup"})) > 0 =>
                  (Len(pre) = dbs[d].trials /\ Len(post) = dbs[d].trials)

\* A finished run of a target with two trials, both with records.
TrialsInOrderWitness ==
    /\ pc = "done"
    /\ \E d \in Targets :
          /\ dbs[d].trials = 2
          /\ Len(stats[d]) = 4
          /\ stats[d][2].trial = 1 /\ stats[d][3].trial = 2

(***************************************************************************)
(* C11: the statistics of a target are the rows of its appends, one per    *)
(* executed step and in the order of execution, each carrying the mpl and  *)
(* the trial of its step: trial-major, and mpl increasing within a trial   *)
(* when inc_mpl >= 1; a step of the run only ever adds one row at the end  *)
(* of a collection and leaves the rows already there as they are.          *)
(***************************************************************************)
StatsAppendOnly ==
    /\ [](\A d \in Targets :
            LET rows == EventsOf(d, {"addstats"})
            IN  /\ Len(stats[d]) = Len(rows)
                /\ \A k \in 1..Len(rows) :
                      /\ stats[d][k].mpl = rows[k].mpl
                      /\ stats[d][k].trial = rows[k].trial
                /\ \A k \in 1..Len(rows) - 1 :
                      \/ stats[d][k].trial < stats[d][k + 1].trial
                      \/ /\ stats[d][k].trial = stats[d][k + 1].trial
                         /\ dbs[d].inc_mpl >= 1 =>
                               stats[d][k].mpl < stats[d][k + 1].mpl)
    /\ [][\A d \in Targets :
            \/ stats'[d] = stats[d]
            \/ /\ Len(stats'[d]) = Len(stats[d]) + 1
               /\ SubSeq(stats'[d], 1, Len(stats[d])) = stats[d]
               /\ stats'[d][Len(stats'[d])].mpl = mpl
               /\ stats'[d][Len(stats'[d])].trial = trial]_vars

\* Two trials of two steps each are on record, in the order they ran.
StatsAppendOnlyWitness ==
    \E d \in Targets :
        /\ Len(stats[d]) = 4
        /\ stats[d][1].trial = 1 /\ stats[d][2].trial = 1
        /\ stats[d][3].trial = 2 /\ stats[d][4].trial = 2
        /\ stats[d][1].mpl < stats[d][2].mpl
        /\ stats[d][3].mpl = stats[d][1].mpl

(***************************************************************************)
(* C17: the history is strictly nested and sequential.  PRE_RUN is its     *)
(* first entry and occurs once, POST_RUN its last; the target changes only *)
(* from a POST_DB to the PRE_DB of the next target in configuration order, *)
(* so all the entries of a target lie between its PRE_DB and its POST_DB   *)
(* and none of another target does; inside a target PRE_TRIAL(t) and       *)
(* POST_TRIAL(t) alternate for t = 1, 2, ...; a finished run has one       *)
(* PRE_DB and one POST_DB for every target.                                *)
(***************************************************************************)
StrictlyNested ==
    /\ Len(trace) > 0 => trace[1].op = "PRE_RUN"
    /\ \A i \in Idx :
          /\ trace[i].op = "PRE_RUN" => i = 1
          /\ trace[i].op = "POST_RUN" => (i = Len(trace) /\ pc = "done")
          /\ trace[i].op \notin {"PRE_RUN", "POST_RUN"} => trace[i].db \in Targets
    /\ \A i \in 1..Len(trace) - 1 :
          LET e == trace[i]
              f == trace[i + 1]
          IN  IF f.op = "PRE_DB"
                 THEN e.op \in {"PRE_RUN", "POST_DB"} /\ f.db = e.db + 1
              ELSE IF f.op = "POST_RUN"
                 THEN e.op \in {"PRE_RUN", "POST_DB"} /\ e.db = Len(dbs)
              ELSE f.db = e.db /\ e.op # "POST_DB"
    /\ \A d \in Targets :
          LET tr == EventsOf(d, {"PRE_TRIAL", "POST_TRIAL"})
          IN  \A k \in 1..Len(tr) :
                 /\ tr[k].op = (IF k % 2 = 1 THEN "PRE_TRIAL" ELSE "POST_TRIAL")
                 /\ tr[k].trial = (k + 1) \div 2
    /\ pc = "done" =>
          /\ trace[Len(trace)].op = "POST_RUN"
          /\ \A d \in Targets :
                /\ Len(EventsOf(d, {"PRE_DB"})) = 1
                /\ Len(EventsOf(d, {"POST_DB"})) = 1

\* A finished run of two targets, each with a trial and a record.
StrictlyNestedWitness ==
    /\ pc = "done"
    /\ Len(dbs) = 2
    /\ Len(stats[1]) >= 1 /\ Len(stats[2]) >= 1
    /\ Len(EventsOf(1, {"POST_TRIAL"})) = 1
    /\ Len(EventsOf(2, {"POST_TRIAL"})) = 1

(***************************************************************************)
(* C18: when every target has inc_mpl >= 1 and every external call         *)
(* returns, the run ends: POST_RUN is dispatched, with trials *            *)
(* ((max_mpl - min_mpl) div inc_mpl + 1) records for every target with     *)
(* min_mpl <= max_mpl and none for the others.                             *)
(***************************************************************************)
StepsOf(c) ==
    IF c.inc_mpl >= 1 /\ c.min_mpl <= c.max_mpl
       THEN c.trials * ((c.max_mpl - c.min_mpl) \div c.inc_mpl + 1)
       ELSE 0

RunTerminates ==
    (\A d \in Targets : dbs[d].inc_mpl >= 1) =>
        <>(/\ pc = "done"
           /\ trace[Len(trace)].op = "POST_RUN"
           /\ \A d \in Targets :
                 /\ Len(stats[d]) = StepsOf(dbs[d])
                 /\ Len(EventsOf(d, {"run"})) = StepsOf(dbs[d]))

\* The end of a run of two trials of the sweep 1, 3: four steps.
RunTerminatesWitness ==
    /\ pc = "done"
    /\ Len(dbs) = 1
    /\ dbs[1].trials = 2 /\ dbs[1].min_mpl = 1 /\ dbs[1].max_mpl = 3
    /\ dbs[1].inc_mpl = 2
    /\ Len(stats[1]) = 4

(***************************************************************************)
(* C19: a target with trials >= 1, min_mpl <= max_mpl and inc_mpl <= 0     *)
(* never leaves the MPL loop of its first trial: every PRE_MPL of it is in *)
(* trial 1 with an mpl within the limit, and POST_TRIAL, cleanup, POST_DB  *)
(* and every later target are never reached; with inc_mpl = 0 all its      *)
(* records carry the same (trial, mpl) = (1, min_mpl).                     *)
(***************************************************************************)
NonPositiveStepNeverExits ==
    \A d \in Targets :
        (dbs[d].trials >= 1 /\ dbs[d].min_mpl <= dbs[d].max_mpl
            /\ dbs[d].inc_mpl <= 0) =>
            /\ EventsOf(d, {"POST_TRIAL", "cleanup", "POST_DB"}) = <<>>
            /\ Len(EventsOf(d, {"PRE_TRIAL"})) <= 1
            /\ LET pre == EventsOf(d, {"PRE_MPL"})
               IN  \A k \in 1..Len(pre) :
                      /\ pre[k].trial = 1
                      /\ pre[k].mpl <= dbs[d].max_mpl
                      /\ pre[k].mpl = dbs[d].min_mpl + (k - 1) * dbs[d].inc_mpl
            /\ dbs[d].inc_mpl = 0 =>
                  \A k \in 1..Len(stats[d]) :
                      /\ stats[d][k].mpl = dbs[d].min_mpl
                      /\ stats[d][k].trial = 1
            /\ pc \notin {"POST_RUN", "done"}
            /\ \A e \in Targets :
                  e > d => (EventsOf(e, {"PRE_DB"}) = <<>> /\ stats[e] = <<>>)

\* inc_mpl = 0: the step (1, min_mpl) is on record three times and the
\* second target has not started.
NonPositiveStepWitness ==
    /\ Len(dbs) = 2
    /\ dbs[1].inc_mpl = 0
    /\ dbs[2].trials = 1
    /\ Len(stats[1]) = 3
    /\ stats[1][1] = stats[1][2] /\ stats[1][2] = stats[1][3]
    /\ pc = "PRE_MPL"

(***************************************************************************)
(* C20: every clean, load, run, append and export of a target comes after  *)
(* the target's PRE_DB and before its cleanup, and a step of the run       *)
(* changes neither the records nor the exported count of any target other  *)
(* than the current one.                                                   *)
(***************************************************************************)
TargetOnlyInItsPhase ==
    /\ [](\A i \in Idx :
            trace[i].op \in {"clean", "load", "run", "addstats", "export"} =>
                /\ \E j \in 1..i - 1 :
                      trace[j].op = "PRE_DB" /\ trace[j].db = trace[i].db
                /\ \A j \in 1..i - 1 :
                      ~(trace[j].op \in {"cleanup", "POST_DB"}
                          /\ trace[j].db = trace[i].db))
    /\ [][\A d \in Targets :
            d # dbi => (stats'[d] = stats[d] /\ exported'[d] = exported[d])]_vars

\* The second target is at work after the first was cleaned up with a record.
TargetOnlyInItsPhaseWitness ==
    /\ Len(dbs) = 2
    /\ dbi = 2
    /\ Len(stats[1]) = 1
    /\ Len(stats[2]) = 1
    /\ Len(EventsOf(1, {"cleanup"})) = 1
    /\ pc = "POST_MPL"

(***************************************************************************)
(* C12: a dispatch looks the upper-cased location up in the hook table: it *)
(* calls every callback registered there once, in registration order and   *)
(* all with the arguments of the dispatch, and calls nothing when nothing  *)
(* is registered there; no dispatch changes the hook table.                *)
(***************************************************************************)
CallsOf(e) == [k \in 1..Len(e.cbs) |-> e.cbs[k].h]

DispatchCallsRegistered ==
    /\ [](\A i \in Idx :
            LET e == trace[i]
                key == Upper(e.op)
            IN  /\ CallsOf(e) = (IF key \in DOMAIN hooks THEN hooks[key] ELSE <<>>)
                /\ \A k \in 1..Len(e.cbs) : e.cbs[k].args = <<e.mpl, e.trial, e.db>>)
    /\ [][hooks' = hooks]_vars

\* A lower-case dispatch at PRE_MPL called h1 then h2, and a dispatch at a
\* location without callbacks called nothing.
DispatchCallsRegisteredWitness ==
    /\ Len(trace) = 2
    /\ trace[1].op = "pre_mpl"
    /\ CallsOf(trace[1]) = <<"h1", "h2">>
    /\ trace[1].cbs[1].args = trace[1].cbs[2].args
    /\ trace[2].op = "nowhere"
    /\ trace[2].cbs = <<>>

(***************************************************************************)
(* C16: the row extract_stats returns has a metric exactly when the        *)
(* metric's pattern has a capturing group and matches the text with that   *)
(* group captured, and its value is then the coercion of the first group   *)
(* of the first match; every other metric is absent from the row, not 0    *)
(* and not the empty text, and every text yields a row.                    *)
(***************************************************************************)
FirstLineOf(label) ==
    LET hits == {i \in 1..Len(stdout) : stdout[i].k = label}
    IN  IF hits = {} THEN 0 ELSE CHOOSE i \in hits : \A j \in hits : i <= j

ExtractSetsMatchedOnly ==
    pc = "extracted" =>
        /\ DOMAIN row \subseteq {"latency", "throughput", "runtime"}
        /\ "runtime" \notin DOMAIN row
        /\ \A km \in {<<"latency", "lat">>, <<"throughput", "thr">>} :
              LET i == FirstLineOf(km[2])
              IN  /\ km[1] \in DOMAIN row <=> (i > 0 /\ stdout[i].v # "None")
                  /\ km[1] \in DOMAIN row => row[km[1]] = ToNum(stdout[i].v)

\* A text whose first latency is 0 and which has no throughput: latency is
\* set to 0, throughput is absent.
ExtractSetsMatchedOnlyWitness ==
    /\ pc = "extracted"
    /\ stdout = <<[k |-> "rt", v |-> "9"], [k |-> "lat", v |-> "0"],
                  [k |-> "lat", v |-> "5"]>>
    /\ DOMAIN row = {"latency"}
    /\ row["latency"] = 0

(***************************************************************************)
(* Reading the config file and the descriptors built from it               *)
(***************************************************************************)
Constructed == pc \notin {"init", "init_failed"}

\* Some section of the file has a recognized option that is missing or does
\* not convert to its declared type.
HasBadOption ==
    \E i \in 1..Len(config) : \E k \in DOMAIN OPTION_KEYS :
        Raises(OPTION_KEYS[k], config[i].items, k)

\* The bare name and the label of one name of a heading.
BareName(n) ==
    IF label_search(strip(n)).matched THEN label_sub(strip(n)) ELSE strip(n)

LabelOf(n) ==
    IF label_search(strip(n)).matched THEN label_search(strip(n)).groups[1] ELSE ""

IsSupported(n) == lower(BareName(n)) \in SUPPORTED_DBS

SupportedNames(names) == SelectSeq(names, IsSupported)

\* The number of descriptors the sections before section i account for.
RECURSIVE Offset(_)
Offset(i) ==
    IF i = 1 THEN 0
    ELSE Offset(i - 1) + Len(SupportedNames(config[i - 1].names))

\* C13: when a section of the config file has a recognized option that is
\* missing or not coercible, construction can only raise; no Runner is built
\* and nothing is ever run: no target, no hook, no process, no row appended
\* or exported, the targets of the valid sections included.
BadOptionFailsConstruction ==
    HasBadOption =>
        /\ pc \in {"init", "init_failed"}
        /\ pc = "init" => (ENABLED ConstructRaises) /\ ~(ENABLED Construct)
        /\ Len(dbs) = 0
        /\ Len(trace) = 0
        /\ DOMAIN stats = {}
        /\ DOMAIN exported = {}

\* Construction has raised on a file whose first section is valid and names a
\* supported kind, and whose second section has the bad option.
BadOptionFailsConstructionWitness ==
    /\ pc = "init_failed"
    /\ Len(config) = 2
    /\ ~process_runner_config_keys(config[1]).raised
    /\ Len(SupportedNames(config[1].names)) = 1
    /\ process_runner_config_keys(config[2]).raised

\* C14: a section of which N names are supported kinds (whatever their case,
\* once the label is removed) yields exactly N descriptors in the order of
\* the names, each with its bare name and its own label (empty when it has
\* none), all with the typed configuration and the extraneous configuration
\* of the section; unsupported names are left out and nothing else.
OneDescriptorPerSupportedName ==
    Constructed =>
        /\ Len(dbs) = Offset(Len(config) + 1)
        /\ \A i \in 1..Len(config) :
              LET sup == SupportedNames(config[i].names)
              IN  \A j \in 1..Len(sup) :
                     LET d == dbs[Offset(i) + j]
                         first == dbs[Offset(i) + 1]
                     IN  /\ d.dbname = BareName(sup[j])
                         /\ d.label = LabelOf(sup[j])
                         /\ d.config = first.config
                         /\ d.config = process_runner_config_keys(config[i]).config
                         /\ d.extraneous_config = first.extraneous_config

\* A run has ended on the one descriptor of a heading whose first name is
\* unsupported and whose second is a labelled supported kind in upper case.
OneDescriptorPerSupportedNameWitness ==
    /\ pc = "done"
    /\ Len(config) = 1
    /\ config[1].names = <<"oracle", "PSQL[b]">>
    /\ Len(dbs) = 1
    /\ dbs[1].dbname = "PSQL"
    /\ dbs[1].label = "b"

\* C15: the extraneous configuration of a section has exactly the keys of
\* the section that are not recognized options, each with the raw string of
\* the section.
ExtraneousIsTheRest ==
    Constructed =>
        \A i \in 1..Len(config) :
            \A j \in 1..Len(SupportedNames(config[i].names)) :
                LET e == dbs[Offset(i) + j].extraneous_config
                    items == config[i].items
                IN  /\ DOMAIN e = (DOMAIN items) \ (DOMAIN OPTION_KEYS)
                    /\ (DOMAIN e) \cap (DOMAIN OPTION_KEYS) = {}
                    /\ \A k \in DOMAIN e : e[k] = items[k]

\* A descriptor carries both unrecognized keys of its section, the port as
\* the string the file holds.
ExtraneousIsTheRestWitness ==
    /\ Constructed
    /\ Len(dbs) = 2
    /\ DOMAIN dbs[2].extraneous_config = ExtraKeys
    /\ dbs[2].extraneous_config["port"] = "080"
    /\ DOMAIN config[1].items = (DOMAIN OPTION_KEYS) \cup ExtraKeys

====
